---- MODULE Spec2Model ----
(***************************************************************************)
(* A model of the request path of modal-comfyui-runner:                    *)
(*   ComfyUI.api  ->  inject_args_into_workflow  ->  download_file         *)
(* (src/modal_comfy.py, src/deploy_utils.py).                              *)
(*                                                                         *)
(* Python strings that the code takes apart (URLs, file paths) are         *)
(* sequences of one-character strings; dictionary keys that the code only  *)
(* looks up (node ids, field names, parameter names) are TLA+ strings.     *)
(* An argument value is a record [isList, items]: a scalar/string value    *)
(* has one item, a list value has its elements as items.                   *)
(***************************************************************************)
EXTENDS Integers, Sequences, FiniteSets, TLC

\* ------------------------------------------------------------------ bounds

\* Requests a container handles concurrently (modal.concurrent).
max_inputs == 3

\* _url_to_filename's bound on the length of a file name.
max_length == 255

\* Entries in one argument set.
MaxArgs == 3

\* Calls of inject made with the same argument object.
MaxCalls == 2

\* Chunks a streamed response body arrives in.
NChunks == 2

\* Greatest max_retries install_custom_node_with_retries is called with.
MaxRetries == 3

\* ------------------------------------------------------------- text helpers

None == "None"

EmptyMap == [x \in {} |-> x]

Put(f, k, v) == [x \in (DOMAIN f) \cup {k} |-> IF x = k THEN v ELSE f[x]]

\* Index of the last occurrence of character c in s, 0 when there is none.
LastIndexOf(s, c) ==
    LET I == {i \in 1..Len(s) : s[i] = c}
    IN  IF I = {} THEN 0 ELSE CHOOSE i \in I : \A j \in I : j <= i

\* Index of the first occurrence of character c in s, 0 when there is none.
FirstIndexOf(s, c) ==
    LET I == {i \in 1..Len(s) : s[i] = c}
    IN  IF I = {} THEN 0 ELSE CHOOSE i \in I : \A j \in I : i <= j

\* url.split("/")[-1]
LastSegment(s) == SubSeq(s, LastIndexOf(s, "/") + 1, Len(s))

\* re.sub(r"\?.*$", "", s)
StripQuery(s) ==
    LET q == FirstIndexOf(s, "?")
    IN  IF q = 0 THEN s ELSE SubSeq(s, 1, q - 1)

\* os.path.splitext on a name without separators: the extension starts at the
\* last dot, unless only dots precede it.
splitext(s) ==
    LET d == LastIndexOf(s, ".")
        lead == d > 0 /\ \E i \in 1..(d - 1) : s[i] # "."
    IN  IF lead THEN [name |-> SubSeq(s, 1, d - 1), ext |-> SubSeq(s, d, Len(s))]
        ELSE [name |-> s, ext |-> <<>>]

\* name[: n] of Python: n < 0 counts from the end.
SliceTo(s, n) ==
    IF n >= 0 THEN SubSeq(s, 1, IF n < Len(s) THEN n ELSE Len(s))
    ELSE SubSeq(s, 1, IF Len(s) + n > 0 THEN Len(s) + n ELSE 0)

_url_to_filename(url) ==
    LET filename == StripQuery(LastSegment(url))
    IN  IF Len(filename) > max_length
        THEN LET p == splitext(filename)
             IN  SliceTo(p.name, max_length - Len(p.ext)) \o p.ext
        ELSE filename

\* "/root/input"
InputDir == <<"/", "r", "o", "o", "t", "/", "i", "n", "p", "u", "t">>

RootDir == <<"/", "r", "o", "o", "t">>

\* str(pathlib.Path(f"/root/input/{name}")): an empty or "." last component
\* is dropped, so the path is the directory itself.
LocalPath(name) ==
    IF name = <<>> \/ name = <<".">> THEN InputDir ELSE InputDir \o <<"/">> \o name

\* pathlib's parent of a path below "/root".
Parent(path) ==
    LET k == LastIndexOf(path, "/")
    IN  IF k <= 1 THEN <<"/">> ELSE SubSeq(path, 1, k - 1)

\* httpx accepts only absolute http(s) URLs (UnsupportedProtocol otherwise).
HasScheme(url) ==
    \/ Len(url) >= 7 /\ SubSeq(url, 1, 7) = <<"h", "t", "t", "p", ":", "/", "/">>
    \/ Len(url) >= 8 /\ SubSeq(url, 1, 8) = <<"h", "t", "t", "p", "s", ":", "/", "/">>

\* str(n) of a natural number.
Digit(n) == <<"0", "1", "2", "3", "4", "5", "6", "7", "8", "9">>[n + 1]

RECURSIVE IntStr(_)
IntStr(n) == IF n < 10 THEN Digit(n) ELSE IntStr(n \div 10) \o Digit(n % 10)

\* Node ids of the mapping document: a YAML integer, a YAML string, or absent.
IntId(n) == [t |-> "int", n |-> n, s |-> ""]
StrId(s) == [t |-> "str", n |-> 0, s |-> s]
NoId == [t |-> "none", n |-> 0, s |-> ""]

\* str(node_id)
Str(id) ==
    CASE id.t = "int" -> IntStr(id.n)
      [] id.t = "str" -> id.s
      [] OTHER -> None

\* ------------------------------------------------------------------ values

\* A scalar (string) argument value.
V(s) == [isList |-> FALSE, items |-> <<s>>]

\* A list argument value.
L(items) == [isList |-> TRUE, items |-> items]

\* `for url in value` (line 158): the elements of a list, the characters of a
\* string.
Iterate(value) ==
    IF value.isList THEN value.items
    ELSE [i \in 1..Len(value.items[1]) |-> <<value.items[1][i]>>]

\* ------------------------------------------------- the injection pass (pure)

\* comfyui_config.get('field', 'inputs')
FieldOf(cfg) == IF cfg.field = None THEN "inputs" ELSE cfg.field

\* dict.setdefault in place of the assignment: a field that has a value keeps it.
SetFieldIfAbsent(wf, n, fg, f, v) ==
    LET node == wf[n]
        node1 == IF fg \in DOMAIN node THEN node ELSE Put(node, fg, EmptyMap)
    IN  IF f \in DOMAIN node1[fg] THEN Put(wf, n, node1)
        ELSE Put(wf, n, Put(node1, fg, Put(node1[fg], f, v)))

\* The write made into a new dictionary that holds the written node alone.
SetFieldInNew(wf, n, fg, f, v) ==
    LET node == wf[n]
        node1 == IF fg \in DOMAIN node THEN node ELSE Put(node, fg, EmptyMap)
    IN  Put(EmptyMap, n, Put(node1, fg, Put(node1[fg], f, v)))

\* Lines 207-209 / 234-236 and 219 / 240: create the field-group when the node
\* lacks it, then assign node[fg][f] = v.
SetField(wf, n, fg, f, v) ==
    LET node == wf[n]
        node1 == IF fg \in DOMAIN node THEN node ELSE Put(node, fg, EmptyMap)
    IN  Put(wf, n, Put(node1, fg, Put(node1[fg], f, v)))

\* Lines 212-216: the 'folder' preprocessing leaves the value as it is.
Preprocess(preprocessing, param_value) ==
    IF preprocessing = "folder" /\ param_value.isList THEN param_value ELSE param_value

\* `param_value in remap_map`: a list is unhashable (TypeError).
Unhashable(param_value) == param_value.isList

InMap(param_value, remap_map) == param_value.items[1] \in DOMAIN remap_map

\* A truthiness test on the rule's 'field' key as well: a rule that relies on
\* the default field-group never fires.
RemapNamedWithField(rc) == Str(rc.node_id) # "" /\ rc.subfield # None /\ rc.field # None

\* The remap rule names a node and a field (the truthiness tests of line 228).
RemapNamed(rc) == Str(rc.node_id) # "" /\ rc.subfield # None

\* Lines 222-240: the remap rules j.. of one parameter, in declared order.
\* r is [wf, warns, log, exc].
RECURSIVE ApplyRemaps(_, _, _, _, _)
ApplyRemaps(r, remaps, j, param_name, param_value) ==
    IF j > Len(remaps) THEN r
    ELSE LET rc == remaps[j]
             n == Str(rc.node_id)
             fg == FieldOf(rc)
         IN  IF ~RemapNamed(rc)
             THEN ApplyRemaps(r, remaps, j + 1, param_name, param_value)
             ELSE IF Unhashable(param_value)
             THEN [r EXCEPT !.exc = "TypeError"]
             ELSE IF ~InMap(param_value, rc.map)
             THEN ApplyRemaps(r, remaps, j + 1, param_name, param_value)
             ELSE IF n \notin DOMAIN r.wf
             THEN ApplyRemaps(
                    [r EXCEPT !.warns = Append(@, [kind |-> "remap_node", param |-> param_name])],
                    remaps, j + 1, param_name, param_value)
             ELSE ApplyRemaps(
                    [r EXCEPT !.wf = SetField(@, n, fg, rc.subfield, rc.map[param_value.items[1]]),
                              !.log = Append(@, [param |-> param_name, kind |-> "remap", j |-> j,
                                                 n |-> n, fg |-> fg, f |-> rc.subfield,
                                                 v |-> rc.map[param_value.items[1]]])],
                    remaps, j + 1, param_name, param_value)

Warn(r, kind, param_name) ==
    [r EXCEPT !.warns = Append(@, [kind |-> kind, param |-> param_name])]

\* Lines 177-242: one iteration of the loop over args.items().
ApplyParam(r, parameters, param_name, param_value) ==
    IF param_name \notin DOMAIN parameters
    THEN Warn(r, "unknown_param", param_name)
    ELSE LET cfg == parameters[param_name]
             n == Str(cfg.node_id)
             fg == FieldOf(cfg)
             v == Preprocess(cfg.preprocessing, param_value)
         IN  IF ~cfg.comfyui
             THEN Warn(r, "no_comfyui", param_name)
             ELSE IF cfg.node_id.t = "none" \/ cfg.subfield = None
             THEN Warn(r, "no_target", param_name)
             ELSE IF n \notin DOMAIN r.wf
             THEN Warn(r, "node", param_name)
             ELSE ApplyRemaps(
                    [r EXCEPT !.wf = SetField(@, n, fg, cfg.subfield, v),
                              !.log = Append(@, [param |-> param_name, kind |-> "primary", j |-> 0,
                                                 n |-> n, fg |-> fg, f |-> cfg.subfield,
                                                 v |-> v])],
                    cfg.remap, 1, param_name, param_value)

\* ------------------------------------------------------------ sample inputs

\* "http://h/a"
U_A == <<"h", "t", "t", "p", ":", "/", "/", "h", "/", "a">>

\* "http://h/b?x=/c"
U_Q == <<"h", "t", "t", "p", ":", "/", "/", "h", "/", "b", "?", "x", "=", "/", "c">>

\* "http://h/d/"
U_D == <<"h", "t", "t", "p", ":", "/", "/", "h", "/", "d", "/">>

\* "http://h/a." followed by max_length + 1 times "x": a name whose extension
\* alone is longer than the bound.
U_LongExt ==
    <<"h", "t", "t", "p", ":", "/", "/", "h", "/", "a", ".">>
        \o [i \in 1..(max_length + 1) |-> "x"]

\* "http://h/" followed by max_length + 1 times "a", then ".png?x=1".
U_LongName ==
    <<"h", "t", "t", "p", ":", "/", "/", "h", "/">>
        \o [i \in 1..(max_length + 1) |-> "a"]
        \o <<".", "p", "n", "g", "?", "x", "=", "1">>

\* Strings the code only compares or copies are kept whole.
Cat == <<"a cat">>
Anime == <<"anime">>
Realistic == <<"realistic">>
Old == <<"old">>
AnimeCkpt == <<"anime.safetensors">>
RealCkpt == <<"real.safetensors">>

Arg(name, value) == [name |-> name, value |-> value]

ArgPairs ==
    {Arg("prompt", V(Cat)), Arg("style", V(Anime)), Arg("style", V(Realistic)),
     Arg("foo", V(Cat)),
     Arg("images", L(<<>>)), Arg("images", L(<<U_A, U_Q>>)), Arg("images", L(<<U_D>>)),
     Arg("images", V(U_A))}

\* Argument sets: dictionaries in insertion order, of at most MaxArgs entries.
RECURSIVE ArgSeqs(_)
ArgSeqs(n) ==
    IF n = 0 THEN {<<>>}
    ELSE LET S == ArgSeqs(n - 1)
         IN  S \cup {Append(a, p) : a \in {x \in S : Len(x) = n - 1},
                                    p \in ArgPairs}

DistinctNames(a) == \A i, j \in 1..Len(a) : a[i].name = a[j].name => i = j

ArgSets == {a \in ArgSeqs(MaxArgs) : DistinctNames(a)}

\* Graph documents (workflow_api.json): node id -> field-group -> field -> value.
Inputs(fields) == [g \in {"inputs"} |-> fields]

Node9 == Inputs([f \in {"ckpt_name"} |-> V(Old)])

Graphs ==
    {[n \in {"6"} |-> Inputs(EmptyMap)],
     [n \in {"6", "9"} |-> IF n = "6" THEN Inputs([f \in {"text"} |-> V(Old)]) ELSE Node9],
     [n \in {"6", "9"} |-> IF n = "6" THEN EmptyMap ELSE Node9],
     [n \in {"9"} |-> Node9]}

\* Mapping documents (api.yaml): parameter name -> rule.
Rule(node_id, field, subfield, preprocessing, remap) ==
    [comfyui |-> TRUE, node_id |-> node_id, field |-> field, subfield |-> subfield,
     preprocessing |-> preprocessing, remap |-> remap]

NoComfyui ==
    [comfyui |-> FALSE, node_id |-> NoId, field |-> None, subfield |-> None,
     preprocessing |-> None, remap |-> <<>>]

Remap(node_id, field, subfield, map) ==
    [node_id |-> node_id, field |-> field, subfield |-> subfield, map |-> map]

R9 == Remap(StrId("9"), None, "ckpt_name", [k \in {Anime} |-> V(AnimeCkpt)])

RMissing == Remap(StrId("7"), None, "ckpt_name", [k \in {Anime} |-> V(AnimeCkpt)])

R9Both ==
    Remap(IntId(9), "inputs", "ckpt_name",
          [k \in {Anime, Realistic} |-> IF k = Anime THEN V(AnimeCkpt) ELSE V(RealCkpt)])

R6Text == Remap(IntId(6), None, "text", [k \in {Realistic} |-> V(RealCkpt)])

RNoField == Remap(StrId("9"), None, None, [k \in {Anime} |-> V(AnimeCkpt)])

PromptRules ==
    {Rule(IntId(6), None, "text", None, <<>>),
     Rule(StrId("7"), None, "text", None, <<R9>>),
     NoComfyui}

StyleRules ==
    {Rule(StrId("6"), None, "style", None, <<R9>>),
     Rule(IntId(6), "inputs", "text", None, <<RMissing, RNoField, R9Both, R6Text>>),
     Rule(StrId("9"), "meta", None, None, <<R9>>)}

ImagesRules ==
    {Rule(IntId(9), None, "images", "folder", <<>>),
     Rule(StrId("6"), None, "images", "folder", <<R9>>)}

\* The 'parameters' section of a mapping document.
Mappings ==
    {[p \in {"prompt", "style"} |-> IF p = "prompt" THEN pr ELSE st] :
        pr \in PromptRules, st \in StyleRules}
    \cup
    {[p \in {"prompt", "style", "images"} |->
        IF p = "prompt" THEN pr ELSE IF p = "style" THEN st ELSE im] :
        pr \in PromptRules, st \in StyleRules, im \in ImagesRules}

Missing == [file |-> "missing", parameters |-> EmptyMap]
Malformed == [file |-> "malformed", parameters |-> EmptyMap]
SpecFile(m) == [file |-> "ok", parameters |-> m]

\* The mapping document of the second workflow of the workspace.
Img2ImgMapping == [p \in {"prompt"} |-> Rule(StrId("9"), None, "positive", None, <<>>)]

Img2ImgGraph == [n \in {"9"} |-> Inputs([f \in {"positive"} |-> V(Old)])]

\* A third workflow, deployed without a mapping document.
DepthGraph == [n \in {"6"} |-> Inputs(EmptyMap)]

Workflows == {"txt2img", "img2img", "depth"}

\* ------------------------------------------------------------------- state

Threads == 1..max_inputs

VARIABLES
    graph_files,     \* workflow name -> the graph document deployed for it
    spec_files,      \* workflow name -> the mapping document deployed for it
    fs,              \* the container's files: path -> [kind, data]
    pc,              \* per request thread: where it is
    data,            \* the request body: [workflow, args]
    args,            \* the argument dictionary object the caller handed over
    objs,            \* the graph objects: [workflow |-> .., copy |-> ..]
    uw_ref,          \* which object `updated_workflow` refers to
    api_config,      \* the loaded 'parameters' section
    local_filepaths, \* the paths collected by the download loop
    k,               \* index of the download loop
    url,             \* download_file's url
    path,            \* download_file's local_filepath
    mode,            \* "buffered" (no Content-Length) or "streamed"
    off,             \* chunks written through the open file handle
    status_code,     \* response.status_code of download_file's request
    idx,             \* index of the loop over args.items()
    r_warns,         \* warnings printed by the pass
    r_log,           \* field writes made by the pass, in order
    exc,             \* the exception that ended the request, None if none
    result,          \* the graph inject returned
    ncall,           \* calls of inject made with this argument object
    out1,            \* the graph the first call returned
    new_workflow_file, \* the graph api dumped for `comfy run`, per request
    output_dir,      \* ComfyUI's output directory, oldest file first
    content_bytes,   \* the bytes api answers the request with
    i_pc,            \* install_custom_node_with_retries: where it is
    max_retries,     \* its max_retries argument
    attempt,         \* its loop variable
    node_path,       \* the node's directory: "absent", "partial" or "installed"
    runs,            \* the subprocess.run calls it made, in order
    i_exc            \* the exception it raised, None if none

vars == <<graph_files, spec_files, fs, pc, data, args, objs, uw_ref, api_config,
          local_filepaths, k, url, path, mode, off, idx, r_warns, r_log, exc,
          result, ncall, out1, status_code, new_workflow_file, output_dir,
          content_bytes, i_pc, max_retries, attempt, node_path, runs, i_exc>>

disk == <<graph_files, spec_files>>
infer_vars == <<new_workflow_file, output_dir, content_bytes>>

install_vars == <<i_pc, max_retries, attempt, node_path, runs, i_exc>>

\* What inject and download_file leave alone.
others == <<disk, infer_vars, install_vars>>
dl_vars == <<local_filepaths, k, url, path, mode, off, status_code>>
loop_vars == <<idx, r_warns, r_log>>
call_vars == <<result, ncall, out1>>

NoArgs == [present |-> FALSE, items |-> <<>>]
Args(a) == [present |-> TRUE, items |-> a]

Dir == [kind |-> "dir", data |-> <<>>]
File(d) == [kind |-> "file", data |-> d]

\* ------------------------------------------------------------- file system

Chunk(u, i) == [u |-> u, i |-> i]
Hole == [u |-> <<>>, i |-> 0]

\* The body the source serves for a URL, as the chunks it arrives in.
Content(u) == [i \in 1..NChunks |-> Chunk(u, i)]

\* write() of chunks cs through a handle at offset o.
WriteAt(d, o, cs) ==
    LET n == IF Len(d) > o + Len(cs) THEN Len(d) ELSE o + Len(cs)
    IN  [i \in 1..n |-> IF i > o /\ i <= o + Len(cs) THEN cs[i - o]
                        ELSE IF i <= Len(d) THEN d[i] ELSE Hole]

Exists(f, p) == p \in DOMAIN f

\* ---------------------------------------------------------------- requests

Request(w, a) == [workflow |-> w, args |-> a]

\* The request bodies of the sequential specification.
\* The injection pass is explored over every argument set for "txt2img"; the
\* other workflows get the argument sets of at most one entry and Scenario A's
\* prompt with an empty asset list.
OtherArgSets ==
    {a \in ArgSets : Len(a) <= 1}
    \cup {<<Arg("prompt", V(Cat)), Arg("images", L(<<>>))>>}

Requests ==
    {Request("txt2img", Args(a)) : a \in ArgSets}
    \cup {Request(w, Args(a)) : w \in Workflows \ {"txt2img"}, a \in OtherArgSets}
    \cup {Request(w, NoArgs) : w \in Workflows}
    \cup {Request("nope", Args(<<>>))}

HasArg(a, name) == \E i \in 1..Len(a) : a[i].name = name

ArgValue(a, name) == (CHOOSE i \in 1..Len(a) : a[i].name = name)

\* args[name] = value on a dictionary that holds the key: the entry keeps its place.
SetArg(a, name, value) ==
    [i \in 1..Len(a) |-> IF a[i].name = name THEN Arg(name, value) ELSE a[i]]

\* download_file's `overwrite` set by its caller.
overwrite_always == TRUE

\* Line 92: inject calls download_file without `overwrite`, so it is False.
overwrite == FALSE

\* The status codes a source answers with.
HTTP_OK == 200
HTTP_NOT_FOUND == 404
HTTP_SERVER_ERROR == 500
Statuses == {HTTP_OK, HTTP_NOT_FOUND, HTTP_SERVER_ERROR}

\* 404 handled like every other status that is not 200.
StatusErrorNo404(status) ==
    IF status # HTTP_OK THEN "Exception" ELSE None

\* Lines 115-120: the exception a response status raises, None for 200.
StatusError(status) ==
    IF status = HTTP_NOT_FOUND THEN "FileNotFoundError"
    ELSE IF status # HTTP_OK THEN "Exception"
    ELSE None

\* Line 154: the mapping document inject reads, whatever the request names.
api_yaml_path(workflow_name) == "txt2img"

\* `updated_workflow = workflow` in place of the copy: the same object.
deepcopy_alias(ref) == ref

\* Line 170: copy.deepcopy(workflow) is a new object.
deepcopy(ref) == "copy"

\* `updated_workflow` as one variable of the module, shared by every call.
FrameOfFirst(t) == 1

\* Line 170 binds a local variable: every call of inject has its own
\* `updated_workflow`.
Frame(t) == t

Raise(t, e) ==
    /\ pc' = [pc EXCEPT ![t] = "raised"]
    /\ exc' = [exc EXCEPT ![t] = e]

Goto(t, l) ==
    /\ pc' = [pc EXCEPT ![t] = l]
    /\ exc' = exc

\* ------------------------------------------------------------------ actions

\* ComfyUI.api up to its call of inject: read the named workflow's graph.
api(t, reqs) ==
    /\ pc[t] = "idle"
    /\ \E req \in reqs :
         /\ data' = [data EXCEPT ![t] = req]
         /\ args' = [args EXCEPT ![t] = req.args]
         /\ IF req.workflow \notin DOMAIN graph_files
            THEN /\ Raise(t, "FileNotFoundError")
                 /\ UNCHANGED <<objs, ncall>>
            ELSE /\ objs' = [objs EXCEPT ![t].workflow = graph_files[req.workflow]]
                 /\ ncall' = [ncall EXCEPT ![t] = 1]
                 /\ Goto(t, "inject")
    /\ UNCHANGED <<others, fs, uw_ref, api_config, dl_vars, loop_vars, result, out1>>

\* inject, lines 148-158: args["images"] is read unconditionally.
inject_enter(t) ==
    /\ pc[t] = "inject"
    /\ IF ~args[t].present
       THEN Raise(t, "TypeError") /\ UNCHANGED <<k, local_filepaths>>
       ELSE IF ~HasArg(args[t].items, "images")
       THEN Raise(t, "KeyError") /\ UNCHANGED <<k, local_filepaths>>
       ELSE /\ k' = [k EXCEPT ![t] = 1]
            /\ local_filepaths' = [local_filepaths EXCEPT ![t] = <<>>]
            /\ Goto(t, "for_url")
    /\ UNCHANGED <<others, fs, data, args, objs, uw_ref, api_config, url, path, mode, off,
                   status_code, loop_vars, call_vars>>

Images(t) == args[t].items[ArgValue(args[t].items, "images")].value

\* Lines 158-159 and 163: the next url of the loop, or the end of the loop, where
\* the caller's dictionary gets the local paths.
for_url(t) ==
    /\ pc[t] = "for_url"
    /\ IF k[t] > Len(Iterate(Images(t)))
       THEN /\ args' = [args EXCEPT ![t].items =
                          SetArg(@, "images", L(local_filepaths[t]))]
            /\ Goto(t, "load")
            /\ UNCHANGED <<url, path>>
       ELSE /\ url' = [url EXCEPT ![t] = Iterate(Images(t))[k[t]]]
            /\ path' = [path EXCEPT ![t] = LocalPath(_url_to_filename(Iterate(Images(t))[k[t]]))]
            /\ Goto(t, "dl_check")
            /\ UNCHANGED args
    /\ UNCHANGED <<others, fs, data, objs, uw_ref, api_config, local_filepaths, k, mode, off,
                   status_code, loop_vars, call_vars>>

\* `return str(local_filepath)` into the loop of inject (lines 159-160).
\* download_file's locals end with the call.
ReturnPath(t) ==
    /\ local_filepaths' = [local_filepaths EXCEPT ![t] = Append(@, path[t])]
    /\ k' = [k EXCEPT ![t] = @ + 1]
    /\ url' = [url EXCEPT ![t] = <<>>]
    /\ path' = [path EXCEPT ![t] = <<>>]
    /\ mode' = [mode EXCEPT ![t] = "buffered"]
    /\ off' = [off EXCEPT ![t] = 0]
    /\ status_code' = [status_code EXCEPT ![t] = 0]
    /\ Goto(t, "for_url")

\* download_file, lines 104-111: make the parent directory, return at once when
\* the target exists.
dl_check(t) ==
    /\ pc[t] = "dl_check"
    /\ LET parent == Parent(path[t])
       IN  IF Exists(fs, parent) /\ fs[parent].kind = "file"
           THEN /\ Raise(t, "FileExistsError")
                /\ UNCHANGED <<fs, dl_vars>>
           ELSE LET fs1 == IF Exists(fs, parent) THEN fs ELSE Put(fs, parent, Dir)
                IN  /\ fs' = fs1
                    /\ IF Exists(fs1, path[t]) /\ ~overwrite
                       THEN ReturnPath(t)
                       ELSE /\ Goto(t, "dl_get")
                            /\ UNCHANGED dl_vars
    /\ UNCHANGED <<others, data, args, objs, uw_ref, api_config, loop_vars, call_vars>>

\* Lines 114-125: the request and the source's answer.
dl_get(t) ==
    /\ pc[t] = "dl_get"
    /\ IF ~HasScheme(url[t])
       THEN Raise(t, "UnsupportedProtocol") /\ UNCHANGED <<mode, status_code>>
       ELSE \E status \in Statuses :
              /\ status_code' = [status_code EXCEPT ![t] = status]
              /\ IF StatusError(status) # None
                 THEN Raise(t, StatusError(status)) /\ UNCHANGED mode
                 ELSE \E m \in {"buffered", "streamed"} :
                        /\ mode' = [mode EXCEPT ![t] = m]
                        /\ Goto(t, "dl_open")
    /\ UNCHANGED <<others, fs, data, args, objs, uw_ref, api_config, local_filepaths, k, url,
                   path, off, loop_vars, call_vars>>

\* Lines 128 / 133: open(local_filepath, "wb") creates or truncates the target.
dl_open(t) ==
    /\ pc[t] = "dl_open"
    /\ IF Exists(fs, path[t]) /\ fs[path[t]].kind = "dir"
       THEN Raise(t, "IsADirectoryError") /\ UNCHANGED <<fs, off>>
       ELSE /\ fs' = Put(fs, path[t], File(<<>>))
            /\ off' = [off EXCEPT ![t] = 0]
            /\ Goto(t, "dl_write")
    /\ UNCHANGED <<others, data, args, objs, uw_ref, api_config, local_filepaths, k, url, path,
                   mode, status_code, loop_vars, call_vars>>

\* Lines 129 / 139-140: one write() through the handle.
dl_write(t) ==
    /\ pc[t] = "dl_write"
    /\ off[t] < NChunks
    /\ LET cs == IF mode[t] = "buffered" THEN Content(url[t])
                 ELSE <<Content(url[t])[off[t] + 1]>>
       IN  /\ fs' = [fs EXCEPT ![path[t]].data = WriteAt(@, off[t], cs)]
           /\ off' = [off EXCEPT ![t] = @ + Len(cs)]
    /\ UNCHANGED <<others, pc, exc, data, args, objs, uw_ref, api_config, local_filepaths, k,
                   url, path, mode, status_code, loop_vars, call_vars>>

\* The end of the `with open` block and line 146.
dl_close(t) ==
    /\ pc[t] = "dl_write"
    /\ off[t] = NChunks
    /\ ReturnPath(t)
    /\ UNCHANGED <<others, fs, data, args, objs, uw_ref, api_config, loop_vars, call_vars>>

\* Lines 166-173: read the mapping document, copy the graph.
load_config(t) ==
    /\ pc[t] = "load"
    /\ LET w == api_yaml_path(data[t].workflow)
           file == IF w \in DOMAIN spec_files THEN spec_files[w] ELSE Missing
       IN  IF file.file = "missing"
           THEN Raise(t, "FileNotFoundError")
                /\ UNCHANGED <<objs, uw_ref, api_config, loop_vars>>
           ELSE IF file.file = "malformed"
           THEN Raise(t, "YAMLError")
                /\ UNCHANGED <<objs, uw_ref, api_config, loop_vars>>
           ELSE /\ api_config' = [api_config EXCEPT ![t] = file.parameters]
                /\ uw_ref' = [uw_ref EXCEPT ![t] = deepcopy("workflow")]
                /\ objs' = [objs EXCEPT ![Frame(t)].copy = objs[t].workflow]
                /\ idx' = [idx EXCEPT ![t] = 1]
                /\ r_warns' = [r_warns EXCEPT ![t] = <<>>]
                /\ r_log' = [r_log EXCEPT ![t] = <<>>]
                /\ Goto(t, "loop")
    /\ UNCHANGED <<others, fs, data, args, dl_vars, call_vars>>

\* Lines 176-242: one parameter of args.items().
inject_param(t) ==
    /\ pc[t] = "loop"
    /\ idx[t] <= Len(args[t].items)
    /\ LET a == args[t].items[idx[t]]
           r == ApplyParam([wf |-> objs[Frame(t)][uw_ref[t]], warns |-> r_warns[t],
                            log |-> r_log[t], exc |-> None],
                           api_config[t], a.name, a.value)
       IN  /\ objs' = [objs EXCEPT ![Frame(t)][uw_ref[t]] = r.wf]
           /\ r_warns' = [r_warns EXCEPT ![t] = r.warns]
           /\ r_log' = [r_log EXCEPT ![t] = r.log]
           /\ idx' = [idx EXCEPT ![t] = @ + 1]
           /\ IF r.exc # None THEN Raise(t, r.exc) ELSE Goto(t, "loop")
    /\ UNCHANGED <<others, fs, data, args, uw_ref, api_config, dl_vars, call_vars>>

\* Line 244.
inject_return(t) ==
    /\ pc[t] = "loop"
    /\ idx[t] > Len(args[t].items)
    /\ result' = [result EXCEPT ![t] = objs[Frame(t)][uw_ref[t]]]
    /\ out1' = [out1 EXCEPT ![t] = IF ncall[t] = 1 THEN objs[Frame(t)][uw_ref[t]] ELSE @]
    /\ Goto(t, "returned")
    /\ UNCHANGED <<others, fs, data, args, objs, uw_ref, api_config, dl_vars, loop_vars, ncall>>

\* inject called once more with the same argument object and a fresh copy of
\* the same graph document.
inject_again(t) ==
    /\ pc[t] = "returned"
    /\ ncall[t] < MaxCalls
    /\ ncall' = [ncall EXCEPT ![t] = @ + 1]
    /\ objs' = [objs EXCEPT ![t].workflow = graph_files[data[t].workflow]]
    /\ Goto(t, "inject")
    /\ UNCHANGED <<others, fs, data, args, uw_ref, api_config, dl_vars, loop_vars, result, out1>>

Step(t, reqs) ==
    \/ api(t, reqs)
    \/ inject_enter(t)
    \/ for_url(t)
    \/ dl_check(t)
    \/ dl_get(t)
    \/ dl_open(t)
    \/ dl_write(t)
    \/ dl_close(t)
    \/ load_config(t)
    \/ inject_param(t)
    \/ inject_return(t)
    \/ inject_again(t)

\* ---------------------------------------------------------- specifications

Deployment(g, f) ==
    /\ graph_files = [w \in Workflows |->
                        IF w = "txt2img" THEN g
                        ELSE IF w = "img2img" THEN Img2ImgGraph ELSE DepthGraph]
    /\ spec_files = [w \in Workflows |->
                       IF w = "txt2img" THEN f
                       ELSE IF w = "img2img" THEN SpecFile(Img2ImgMapping) ELSE Missing]

InitThreads ==
    /\ fs = [p \in {RootDir} |-> Dir]
    /\ pc = [t \in Threads |-> "idle"]
    /\ data = [t \in Threads |-> Request("", NoArgs)]
    /\ args = [t \in Threads |-> NoArgs]
    /\ objs = [t \in Threads |-> [workflow |-> EmptyMap, copy |-> EmptyMap]]
    /\ uw_ref = [t \in Threads |-> "copy"]
    /\ api_config = [t \in Threads |-> EmptyMap]
    /\ local_filepaths = [t \in Threads |-> <<>>]
    /\ k = [t \in Threads |-> 0]
    /\ url = [t \in Threads |-> <<>>]
    /\ path = [t \in Threads |-> <<>>]
    /\ mode = [t \in Threads |-> "buffered"]
    /\ off = [t \in Threads |-> 0]
    /\ status_code = [t \in Threads |-> 0]
    /\ idx = [t \in Threads |-> 0]
    /\ r_warns = [t \in Threads |-> <<>>]
    /\ r_log = [t \in Threads |-> <<>>]
    /\ exc = [t \in Threads |-> None]
    /\ result = [t \in Threads |-> EmptyMap]
    /\ ncall = [t \in Threads |-> 0]
    /\ out1 = [t \in Threads |-> EmptyMap]
    /\ new_workflow_file = [t \in Threads |-> None]
    /\ output_dir = <<>>
    /\ content_bytes = [t \in Threads |-> None]

\* The image is built before a request is served: the installation is over.
Installed ==
    /\ i_pc = "returned"
    /\ max_retries = MaxRetries
    /\ attempt = 0
    /\ node_path = "installed"
    /\ runs = <<>>
    /\ i_exc = None

\* One request at a time, over every deployment and request body of the samples.
Init ==
    /\ \E g \in Graphs, f \in {SpecFile(m) : m \in Mappings} \cup {Missing, Malformed} :
         Deployment(g, f)
    /\ InitThreads
    /\ Installed

Next == Step(1, Requests)

Spec == Init /\ [][Next]_vars

\* Up to max_inputs requests of one container at a time, each for the same
\* deployment and with the same asset reference.
ConcRequests ==
    {Request("txt2img", Args(<<Arg("images", L(<<U_A>>))>>)),
     Request("txt2img", Args(<<Arg("prompt", V(Cat)), Arg("images", L(<<U_A>>))>>))}

ConcGraph == [n \in {"6", "9"} |-> IF n = "6" THEN Inputs(EmptyMap) ELSE Node9]

ConcMapping ==
    [p \in {"prompt", "images"} |->
        IF p = "prompt" THEN Rule(IntId(6), None, "text", None, <<>>)
        ELSE Rule(IntId(9), None, "images", "folder", <<>>)]

InitConc ==
    /\ Deployment(ConcGraph, SpecFile(ConcMapping))
    /\ InitThreads
    /\ Installed

NextConc ==
    \E t \in Threads :
        \/ api(t, ConcRequests)
        \/ inject_enter(t)
        \/ for_url(t)
        \/ dl_check(t)
        \/ dl_get(t)
        \/ dl_open(t)
        \/ dl_write(t)
        \/ dl_close(t)
        \/ load_config(t)
        \/ inject_param(t)
        \/ inject_return(t)

SpecConc == InitConc /\ [][NextConc]_vars

\* ------------------------------------------------ the run of the workflow

\* What inject and download_file work on.
inject_vars == <<disk, fs, data, args, objs, uw_ref, api_config, dl_vars, loop_vars, call_vars>>

\* The file a run of ComfyUI saves for the graph it was given.
Artifact(t, g) == [run |-> t, graph |-> g]

\* ComfyUI.api, lines 272-273: the injected graph goes to a file named by a
\* fresh uuid.
api_dump(t) ==
    /\ pc[t] = "returned"
    /\ new_workflow_file' = [new_workflow_file EXCEPT ![t] = result[t]]
    /\ Goto(t, "infer")
    /\ UNCHANGED <<inject_vars, install_vars, output_dir, content_bytes>>

\* ComfyUI.infer, lines 246-250: the health check, then `comfy run --wait`,
\* which leaves its file in the output directory.
infer_run(t) ==
    /\ pc[t] = "infer"
    /\ \E outcome \in {"ok", "unhealthy", "failed"} :
         IF outcome = "unhealthy" THEN Raise(t, "Exception") /\ UNCHANGED output_dir
         ELSE IF outcome = "failed"
         THEN Raise(t, "CalledProcessError") /\ UNCHANGED output_dir
         ELSE /\ output_dir' = Append(output_dir, Artifact(t, new_workflow_file[t]))
              /\ Goto(t, "latest")
    /\ UNCHANGED <<inject_vars, install_vars, new_workflow_file, content_bytes>>

\* ComfyUI.infer, lines 253-259, and api's line 280: the file of the output
\* directory with the greatest mtime is read and sent back.
infer_latest(t) ==
    /\ pc[t] = "latest"
    /\ content_bytes' = [content_bytes EXCEPT ![t] = output_dir[Len(output_dir)]]
    /\ Goto(t, "responded")
    /\ UNCHANGED <<inject_vars, install_vars, new_workflow_file, output_dir>>

\* The request bodies of the specification of the runs: no asset to fetch.
InferRequests ==
    {Request("txt2img", Args(<<Arg("images", L(<<>>))>>)),
     Request("txt2img", Args(<<Arg("prompt", V(Cat)), Arg("images", L(<<>>))>>))}

InitInfer ==
    /\ Deployment(ConcGraph, SpecFile(ConcMapping))
    /\ InitThreads
    /\ Installed

\* Up to max_inputs requests of one container at a time, each from its body to
\* its response.
NextInfer ==
    \E t \in Threads :
        \/ api(t, InferRequests)
        \/ inject_enter(t)
        \/ for_url(t)
        \/ load_config(t)
        \/ inject_param(t)
        \/ inject_return(t)
        \/ api_dump(t)
        \/ infer_run(t)
        \/ infer_latest(t)

SpecInfer == InitInfer /\ [][NextInfer]_vars

\* ------------------------------------- install_custom_node_with_retries

request_vars == <<inject_vars, infer_vars, pc, exc>>

\* How a subprocess.run(..., check=True) ends: the command succeeds, it exits
\* with a status that is not zero, or it cannot be started.
Outcomes == {"ok", "CalledProcessError", "OSError"}

Run(cmd, outcome) == [attempt |-> attempt, cmd |-> cmd, outcome |-> outcome, found |-> node_path]

\* Lines 74-78, and an exception the `except` clause does not catch.
Except(outcome) ==
    IF outcome = "CalledProcessError" /\ attempt # max_retries - 1
    THEN /\ attempt' = attempt + 1
         /\ i_pc' = "for"
         /\ i_exc' = i_exc
    ELSE /\ attempt' = attempt
         /\ i_pc' = "raised"
         /\ i_exc' = outcome

\* Line 57: `for attempt in range(max_retries)`; the function ends, returning
\* None, when the range is used up.
install_for ==
    /\ i_pc = "for"
    /\ i_pc' = IF attempt < max_retries THEN "rm" ELSE "returned"
    /\ UNCHANGED <<request_vars, max_retries, attempt, node_path, runs, i_exc>>

\* Lines 59-61: rm -rf of a directory that exists.
install_rm ==
    /\ i_pc = "rm"
    /\ IF node_path = "absent"
       THEN /\ i_pc' = "clone"
            /\ UNCHANGED <<attempt, node_path, runs, i_exc>>
       ELSE \E outcome \in Outcomes :
              /\ runs' = Append(runs, Run("rm", outcome))
              /\ IF outcome = "ok"
                 THEN /\ node_path' = "absent"
                      /\ i_pc' = "clone"
                      /\ UNCHANGED <<attempt, i_exc>>
                 ELSE /\ Except(outcome)
                      /\ UNCHANGED node_path
    /\ UNCHANGED <<request_vars, max_retries>>

\* Line 65: git clone; a clone that fails may leave a directory behind.
install_clone ==
    /\ i_pc = "clone"
    /\ \E outcome \in Outcomes :
         /\ runs' = Append(runs, Run("clone", outcome))
         /\ IF outcome = "ok"
            THEN /\ node_path' = "partial"
                 /\ i_pc' = "checkout"
                 /\ UNCHANGED <<attempt, i_exc>>
            ELSE /\ Except(outcome)
                 /\ \E left \in {node_path, "partial"} : node_path' = left
    /\ UNCHANGED <<request_vars, max_retries>>

\* Lines 69-72: git checkout of the commit, then `return`.
install_checkout ==
    /\ i_pc = "checkout"
    /\ \E outcome \in Outcomes :
         /\ runs' = Append(runs, Run("checkout", outcome))
         /\ IF outcome = "ok"
            THEN /\ node_path' = "installed"
                 /\ i_pc' = "returned"
                 /\ UNCHANGED <<attempt, i_exc>>
            ELSE /\ Except(outcome)
                 /\ UNCHANGED node_path
    /\ UNCHANGED <<request_vars, max_retries>>

\* A call of install_custom_node_with_retries with any max_retries up to
\* MaxRetries, on a machine where the node's directory may exist.
InitInstall ==
    /\ Deployment(ConcGraph, SpecFile(ConcMapping))
    /\ InitThreads
    /\ i_pc = "for"
    /\ max_retries \in 0..MaxRetries
    /\ attempt = 0
    /\ node_path \in {"absent", "partial", "installed"}
    /\ runs = <<>>
    /\ i_exc = None

NextInstall ==
    \/ install_for
    \/ install_rm
    \/ install_clone
    \/ install_checkout

SpecInstall == InitInstall /\ [][NextInstall]_vars

\* ------------------------------------------------ inject as one function

\* Lines 156-163 when every fetch succeeds: each reference becomes its local path.
ResolveArgs(a) ==
    LET refs == Iterate(a[ArgValue(a, "images")].value)
    IN  SetArg(a, "images",
               L([i \in 1..Len(refs) |-> LocalPath(_url_to_filename(refs[i]))]))

RECURSIVE InjectLoop(_, _, _, _)
InjectLoop(r, parameters, a, i) ==
    IF i > Len(a) \/ r.exc # None THEN r
    ELSE InjectLoop(ApplyParam(r, parameters, a[i].name, a[i].value), parameters, a, i + 1)

\* inject_args_into_workflow(g, a) under mapping document `parameters`, every
\* fetch succeeding: [wf, warns, log, exc].
inject_args_into_workflow(g, a, parameters) ==
    LET r0 == [wf |-> g, warns |-> <<>>, log |-> <<>>, exc |-> None]
    IN  IF ~HasArg(a, "images") THEN [r0 EXCEPT !.exc = "KeyError"]
        ELSE IF \E i \in 1..Len(Iterate(a[ArgValue(a, "images")].value)) :
                    ~HasScheme(Iterate(a[ArgValue(a, "images")].value)[i])
        THEN [r0 EXCEPT !.exc = "UnsupportedProtocol"]
        ELSE InjectLoop(r0, parameters, ResolveArgs(a), 1)

Remove(a, name) == SelectSeq(a, LAMBDA x : x.name # name)

\* ------------------------------------------------------------------ claims

Finished(t) == pc[t] \in {"returned", "raised"}

\* The request's first call of inject, for the workflow whose mapping document
\* inject reads, with an argument set.
FirstCall(t) ==
    /\ ncall[t] = 1
    /\ data[t].workflow = "txt2img"
    /\ data[t].args.present

\* Failures the specification lets end a request: an unreadable or unparseable
\* document, a failed asset resolution.
StructuralFailures ==
    {"YAMLError", "FileNotFoundError", "Exception", "UnsupportedProtocol",
     "FileExistsError", "IsADirectoryError"}

Warned(t, kind, name) ==
    \E i \in 1..Len(r_warns[t]) : r_warns[t][i] = [kind |-> kind, param |-> name]

\* C1: from the moment api hands the graph to inject, through every step of
\* inject and after it returned or raised, the caller's graph object equals the
\* document that was loaded: no write of the pass lands in it.
C1_InputNotMutated ==
    \A t \in Threads :
        (pc[t] # "idle" /\ data[t].workflow \in DOMAIN graph_files)
            => objs[t].workflow = graph_files[data[t].workflow]

\* A call that returned a graph differing from the caller's: writes happened.
C1_Witness ==
    \E t \in Threads :
        /\ pc[t] = "returned"
        /\ result[t] # objs[t].workflow
        /\ Len(r_log[t]) > 0

\* C2: a request with a readable graph ends in failure only for an unparseable
\* mapping document or a failed asset resolution, whatever the argument set.
C2_OnlyStructuralFailures ==
    \A t \in Threads :
        (pc[t] = "raised" /\ data[t].workflow \in DOMAIN graph_files)
            => exc[t] \in StructuralFailures

\* C3: an argument set holding a name the mapping document lacks: the call
\* returns, a warning names it, and the output is that of the argument set
\* without it.
C3_UnknownParamTolerated ==
    \A t \in Threads :
        (Finished(t) /\ FirstCall(t) /\ spec_files["txt2img"].file = "ok"
                     /\ exc[t] \notin StructuralFailures)
            => \A i \in 1..Len(data[t].args.items) :
                 LET name == data[t].args.items[i].name
                     m == spec_files["txt2img"].parameters
                     ref == inject_args_into_workflow(
                              graph_files["txt2img"], Remove(data[t].args.items, name), m)
                 IN  name \notin DOMAIN m
                       => /\ pc[t] = "returned"
                          /\ Warned(t, "unknown_param", name)
                          /\ ref.exc = None
                          /\ result[t] = ref.wf

\* C3 on the calls that return, for an unknown name other than the asset list.
C3_OnReturn ==
    \A t \in Threads :
        (pc[t] = "returned" /\ FirstCall(t))
            => \A i \in 1..Len(data[t].args.items) :
                 LET name == data[t].args.items[i].name
                     m == spec_files["txt2img"].parameters
                     ref == inject_args_into_workflow(
                              graph_files["txt2img"], Remove(data[t].args.items, name), m)
                 IN  (name \notin DOMAIN m /\ name # "images")
                       => /\ Warned(t, "unknown_param", name)
                          /\ ref.exc = None
                          /\ result[t] = ref.wf

\* The rule of `name` has a comfyui section with node_id and subfield.
HasTarget(m, name) ==
    /\ name \in DOMAIN m
    /\ m[name].comfyui
    /\ m[name].node_id.t # "none"
    /\ m[name].subfield # None

\* The rule of `name` resolves to a node of graph g and a field.
RuleResolves(m, name, g) == HasTarget(m, name) /\ Str(m[name].node_id) \in DOMAIN g

PrimaryWrote(t, name) ==
    \E x \in 1..Len(r_log[t]) : r_log[t][x].param = name /\ r_log[t][x].kind = "primary"

\* C4: a supplied parameter whose rule names a node the graph lacks: the call
\* returns with a warning, nothing is written for that rule, and the output is
\* that of the argument set without the parameter.
C4_MissingNodeTolerated ==
    \A t \in Threads :
        (Finished(t) /\ FirstCall(t) /\ spec_files["txt2img"].file = "ok"
                     /\ exc[t] \notin StructuralFailures)
            => \A i \in 1..Len(data[t].args.items) :
                 LET name == data[t].args.items[i].name
                     m == spec_files["txt2img"].parameters
                     g == graph_files["txt2img"]
                     ref == inject_args_into_workflow(g, Remove(data[t].args.items, name), m)
                 IN  (HasTarget(m, name) /\ Str(m[name].node_id) \notin DOMAIN g)
                       => /\ pc[t] = "returned"
                          /\ Warned(t, "node", name)
                          /\ ~PrimaryWrote(t, name)
                          /\ ref.exc = None
                          /\ result[t] = ref.wf

\* C4 on the calls that return, for a parameter other than the asset list.
C4_OnReturn ==
    \A t \in Threads :
        (pc[t] = "returned" /\ FirstCall(t))
            => \A i \in 1..Len(data[t].args.items) :
                 LET name == data[t].args.items[i].name
                     m == spec_files["txt2img"].parameters
                     g == graph_files["txt2img"]
                     ref == inject_args_into_workflow(g, Remove(data[t].args.items, name), m)
                 IN  (HasTarget(m, name) /\ Str(m[name].node_id) \notin DOMAIN g
                                         /\ name # "images")
                       => /\ Warned(t, "node", name)
                          /\ \A x \in 1..Len(r_log[t]) : r_log[t][x].param # name
                          /\ ref.exc = None
                          /\ result[t] = ref.wf

\* The raw value is a key of the lookup table.
KeyOf(value, map) == ~value.isList /\ value.items[1] \in DOMAIN map

\* Remap rule j of `name` wrote its mapped value into its own target.
RemapWrote(t, name, j, rc, value) ==
    \E x \in 1..Len(r_log[t]) :
        r_log[t][x] = [param |-> name, kind |-> "remap", j |-> j, n |-> Str(rc.node_id),
                       fg |-> FieldOf(rc), f |-> rc.subfield, v |-> rc.map[value.items[1]]]

\* Remap rule j of `name` wrote something.
RemapFired(t, name, j) ==
    \E x \in 1..Len(r_log[t]) :
        r_log[t][x].param = name /\ r_log[t][x].kind = "remap" /\ r_log[t][x].j = j

SamePath(e1, e2) == e1.n = e2.n /\ e1.fg = e2.fg /\ e1.f = e2.f

\* The working graph holds, at every written path, the value of the last write
\* to it.
LogFaithful(t) ==
    LET wf == objs[t][uw_ref[t]]
        lg == r_log[t]
    IN  \A x \in 1..Len(lg) :
            (\A y \in (x + 1)..Len(lg) : ~SamePath(lg[x], lg[y]))
                => /\ lg[x].n \in DOMAIN wf
                   /\ lg[x].fg \in DOMAIN wf[lg[x].n]
                   /\ lg[x].f \in DOMAIN wf[lg[x].n][lg[x].fg]
                   /\ wf[lg[x].n][lg[x].fg][lg[x].f] = lg[x].v

\* Every field of the loaded graph that no write targeted is as it was.
Untouched(t) ==
    LET wf == objs[t][uw_ref[t]]
        g == graph_files[data[t].workflow]
        lg == r_log[t]
    IN  \A n \in DOMAIN g : \A fg \in DOMAIN g[n] : \A f \in DOMAIN g[n][fg] :
            (\A x \in 1..Len(lg) : ~(lg[x].n = n /\ lg[x].fg = fg /\ lg[x].f = f))
                => wf[n][fg][f] = g[n][fg][f]

\* The pass over args.items() has begun in the current call.
InPass(t) ==
    \/ pc[t] \in {"loop", "returned"}
    \/ pc[t] = "raised" /\ exc[t] = "TypeError" /\ args[t].present

\* C5 as stated: in a call that returned, for every supplied parameter with
\* remap rules, remap rule j wrote its mapped value into its target exactly when
\* the raw value is a key of rule j's lookup table.
C5_RemapIffInTable ==
    \A t \in Threads :
        pc[t] = "returned"
            => \A i \in 1..Len(args[t].items) :
                 LET a == args[t].items[i]
                     m == api_config[t]
                 IN  (a.name \in DOMAIN m)
                       => \A j \in 1..Len(m[a.name].remap) :
                            /\ KeyOf(a.value, m[a.name].remap[j].map)
                                  <=> RemapFired(t, a.name, j)
                            /\ RemapFired(t, a.name, j)
                                  => RemapWrote(t, a.name, j, m[a.name].remap[j], a.value)

\* C5, amended: for every parameter the pass has processed, remap rule j wrote
\* its mapped value into its own (node, field-group, field) exactly when the
\* parameter's primary rule resolved, the raw value is a key of rule j's table,
\* rule j names a field and rule j's node is in the graph; a rule that is
\* skipped does not stop the later ones, the graph holds the last value written
\* to each path, and every path no rule wrote is as it was.
C5_RemapGating ==
    \A t \in Threads :
        InPass(t)
            => /\ \A i \in 1..(idx[t] - 1) :
                    LET a == args[t].items[i]
                        m == api_config[t]
                        g == graph_files[data[t].workflow]
                    IN  (a.name \in DOMAIN m)
                          => \A j \in 1..Len(m[a.name].remap) :
                               LET rc == m[a.name].remap[j]
                               IN  /\ (/\ RuleResolves(m, a.name, g)
                                        /\ KeyOf(a.value, rc.map)
                                        /\ rc.subfield # None
                                        /\ Str(rc.node_id) \in DOMAIN g)
                                         <=> RemapFired(t, a.name, j)
                                   /\ RemapFired(t, a.name, j)
                                         => RemapWrote(t, a.name, j, rc, a.value)
               /\ LogFaithful(t)
               /\ Untouched(t)

\* A returned call in which a remap rule was skipped for a value outside its
\* table and a later rule of the same parameter wrote.
C5_Witness ==
    \E t \in Threads :
        /\ pc[t] = "returned"
        /\ \E i \in 1..Len(args[t].items) :
             LET a == args[t].items[i]
                 m == api_config[t]
             IN  /\ a.name \in DOMAIN m
                 /\ \E j1, j2 \in 1..Len(m[a.name].remap) :
                      /\ j1 < j2
                      /\ m[a.name].remap[j1].subfield # None
                      /\ ~KeyOf(a.value, m[a.name].remap[j1].map)
                      /\ KeyOf(a.value, m[a.name].remap[j2].map)
                      /\ RemapWrote(t, a.name, j2, m[a.name].remap[j2], a.value)

\* The last write of the log to the path of entry e is e itself.
LastWriteIs(lg, x) == \A y \in (x + 1)..Len(lg) : ~SamePath(lg[x], lg[y])

\* C6: once the pass over the arguments has begun, every supplied parameter
\* whose rule resolves to a node of the graph and a field gets its primary
\* write, whatever its remap rules do: the call returns, the write was made,
\* and the output holds the value unless a later write took the same path.
C6_PrimaryWriteAlways ==
    \A t \in Threads :
        (InPass(t) /\ Finished(t) /\ FirstCall(t))
            => \A i \in 1..Len(args[t].items) :
                 LET a == args[t].items[i]
                     m == api_config[t]
                     g == graph_files[data[t].workflow]
                 IN  RuleResolves(m, a.name, g)
                       => /\ pc[t] = "returned"
                          /\ \E x \in 1..Len(r_log[t]) :
                               /\ r_log[t][x] = [param |-> a.name, kind |-> "primary", j |-> 0,
                                                 n |-> Str(m[a.name].node_id),
                                                 fg |-> FieldOf(m[a.name]),
                                                 f |-> m[a.name].subfield, v |-> a.value]
                               /\ LastWriteIs(r_log[t], x)
                                    => result[t][Str(m[a.name].node_id)][FieldOf(m[a.name])]
                                             [m[a.name].subfield] = a.value

\* C6 on the calls that return.
C6_OnReturn ==
    \A t \in Threads :
        pc[t] = "returned"
            => \A i \in 1..Len(args[t].items) :
                 LET a == args[t].items[i]
                     m == api_config[t]
                     g == graph_files[data[t].workflow]
                 IN  RuleResolves(m, a.name, g)
                       => \E x \in 1..Len(r_log[t]) :
                            /\ r_log[t][x] = [param |-> a.name, kind |-> "primary", j |-> 0,
                                              n |-> Str(m[a.name].node_id),
                                              fg |-> FieldOf(m[a.name]),
                                              f |-> m[a.name].subfield, v |-> a.value]
                            /\ LastWriteIs(r_log[t], x)
                                 => result[t][Str(m[a.name].node_id)][FieldOf(m[a.name])]
                                          [m[a.name].subfield] = a.value

\* The paths that the rules of the supplied parameters other than a[i] write,
\* and that the remap rules of a[i] write.
OtherTargets(m, g, a, i) ==
    {<<Str(m[a[x].name].node_id), FieldOf(m[a[x].name]), m[a[x].name].subfield>> :
        x \in {y \in 1..Len(a) : y # i /\ RuleResolves(m, a[y].name, g)}}
    \cup
    UNION {{<<Str(m[a[x].name].remap[j].node_id), FieldOf(m[a[x].name].remap[j]),
              m[a[x].name].remap[j].subfield>> :
              j \in {z \in 1..Len(m[a[x].name].remap) :
                       KeyOf(a[x].value, m[a[x].name].remap[z].map)}} :
           x \in {y \in 1..Len(a) : RuleResolves(m, a[y].name, g)}}

\* C7: for every supplied parameter p = v whose rule names node n (a number or
\* a string), field-group fg and field f, with str(n) in the graph and no other
\* write of the pass on the same path, the call returns and
\* output[str(n)][fg][f] = v (Scenario A is the case of graph {"6": {"inputs":
\* {}}}, rule prompt -> node 6 / text, args {prompt: "a cat"}).
C7_PrimaryValueInOutput ==
    \A t \in Threads :
        (Finished(t) /\ FirstCall(t) /\ spec_files["txt2img"].file = "ok"
                     /\ exc[t] \notin StructuralFailures)
            => \A i \in 1..Len(data[t].args.items) :
                 LET a == data[t].args.items
                     m == spec_files["txt2img"].parameters
                     g == graph_files["txt2img"]
                     n == Str(m[a[i].name].node_id)
                     fg == FieldOf(m[a[i].name])
                     f == m[a[i].name].subfield
                 IN  (/\ RuleResolves(m, a[i].name, g)
                      /\ a[i].name # "images"
                      /\ <<n, fg, f>> \notin OtherTargets(m, g, a, i))
                       => /\ pc[t] = "returned"
                          /\ fg \in DOMAIN result[t][n]
                          /\ f \in DOMAIN result[t][n][fg]
                          /\ result[t][n][fg][f] = a[i].value

\* C7 on the calls that return.
C7_OnReturn ==
    \A t \in Threads :
        (pc[t] = "returned" /\ FirstCall(t))
            => \A i \in 1..Len(data[t].args.items) :
                 LET a == data[t].args.items
                     m == spec_files["txt2img"].parameters
                     g == graph_files["txt2img"]
                     n == Str(m[a[i].name].node_id)
                     fg == FieldOf(m[a[i].name])
                     f == m[a[i].name].subfield
                 IN  (/\ RuleResolves(m, a[i].name, g)
                      /\ a[i].name # "images"
                      /\ <<n, fg, f>> \notin OtherTargets(m, g, a, i))
                       => /\ fg \in DOMAIN result[t][n]
                          /\ f \in DOMAIN result[t][n][fg]
                          /\ result[t][n][fg][f] = a[i].value

\* C8: a second call of inject with the same argument object, the same mapping
\* document and a fresh copy of the same graph returns the graph the first call
\* returned.
C8_SecondCallSameOutput ==
    \A t \in Threads :
        (ncall[t] = 2 /\ Finished(t)) => (pc[t] = "returned" /\ result[t] = out1[t])

\* C8 for the references whose file name is not empty.
C8_NamedFiles ==
    \A t \in Threads :
        (/\ ncall[t] = 2
         /\ Finished(t)
         /\ \A i \in 1..Len(Images(t).items) : Images(t).items[i] # InputDir)
            => (pc[t] = "returned" /\ result[t] = out1[t])

\* C9: the mapping document applied is the one of the workflow the request
\* names; a workflow without one fails the request.
C9_SpecOfNamedWorkflow ==
    \A t \in Threads :
        pc[t] \in {"loop", "returned"}
            => /\ spec_files[data[t].workflow].file = "ok"
               /\ api_config[t] = spec_files[data[t].workflow].parameters

\* Thread t holds `p` open for writing.
Writing(t, p) == pc[t] = "dl_write" /\ path[t] = p

\* The file at p holds the whole body of a source and nobody has it open.
CompleteFile(p) ==
    /\ p \in DOMAIN fs
    /\ fs[p].kind = "file"
    /\ \E u \in {U_A, U_Q, U_D} : fs[p].data = Content(u)
    /\ \A t \in Threads : ~Writing(t, p)

\* C10: every path download_file has returned to a caller names a completely
\* written file, and no two callers have the same target open for writing.
C10_ReturnedFilesComplete ==
    /\ \A t \in Threads : \A i \in 1..Len(local_filepaths[t]) :
           CompleteFile(local_filepaths[t][i])
    /\ \A t1, t2 \in Threads : \A p \in DOMAIN fs :
           (Writing(t1, p) /\ Writing(t2, p)) => t1 = t2

\* C11: download_file called without `overwrite` on a target that exists returns
\* the path into the caller's list at once, leaving every file as it is and
\* issuing no request; it goes on to the request only when the target is absent.
C11_SkipExisting ==
    [][\A t \in Threads :
          (pc[t] = "dl_check" /\ pc'[t] # "dl_check")
              => /\ (path[t] \in DOMAIN fs)
                      => /\ fs' = fs
                         /\ pc'[t] = "for_url"
                         /\ local_filepaths'[t] = Append(local_filepaths[t], path[t])
                 /\ (pc'[t] = "dl_get") => (path[t] \notin DOMAIN fs)]_vars

\* The second call of inject got a path back for a target the first call had
\* written: the file is there, whole, and the call is past it.
C11_Witness ==
    \E t \in Threads :
        /\ ncall[t] = 2
        /\ pc[t] = "for_url"
        /\ k[t] > 1
        /\ local_filepaths[t][1] \in DOMAIN fs
        /\ fs[local_filepaths[t][1]] =
              File(Content(data[t].args.items[ArgValue(data[t].args.items, "images")].value.items[1]))
        /\ status_code[t] = 0

\* C12: a 404 answer ends download_file with FileNotFoundError and every other
\* answer that is not 200 with Exception; the step that raises changes no file
\* and returns no graph, and a request that raised never goes on to return one.
C12_FetchErrors ==
    [][\A t \in Threads :
          /\ (pc[t] = "dl_get" /\ pc'[t] # "dl_get")
                => /\ (status_code'[t] = HTTP_NOT_FOUND)
                        => (pc'[t] = "raised" /\ exc'[t] = "FileNotFoundError")
                   /\ (status_code'[t] \in Statuses \ {HTTP_OK, HTTP_NOT_FOUND})
                        => (pc'[t] = "raised" /\ exc'[t] = "Exception")
                   /\ (pc'[t] = "raised")
                        => (fs' = fs /\ result' = result /\ path[t] \notin DOMAIN fs')
          /\ (pc[t] = "raised")
                => (pc'[t] = "raised" /\ exc'[t] = exc[t] /\ result'[t] = result[t])]_vars

\* A request ended by a 404 answer, with no file at the target.
C12_Witness ==
    \E t \in Threads :
        /\ pc[t] = "raised"
        /\ status_code[t] = HTTP_NOT_FOUND
        /\ exc[t] = "FileNotFoundError"
        /\ path[t] \notin DOMAIN fs
        /\ ncall[t] = 1
        /\ result[t] = EmptyMap

\* The request names the workflow whose mapping document inject reads, and that
\* document does not parse.
MalformedSpec(t) ==
    /\ pc[t] # "idle"
    /\ data[t].workflow = "txt2img"
    /\ spec_files["txt2img"] = Malformed

\* Exceptions of a failed asset resolution.
FetchFailures ==
    {"FileNotFoundError", "Exception", "UnsupportedProtocol", "FileExistsError",
     "IsADirectoryError"}

\* C13: with a malformed mapping document the request ends in the parse error
\* of the document (or in the failure of an asset fetch made before it), the
\* pass over the arguments never starts, no copy of the graph is made or
\* written and no graph is returned.
C13_MalformedIsConfigError ==
    \A t \in Threads :
        MalformedSpec(t)
            => /\ pc[t] \notin {"loop", "returned"}
               /\ r_log[t] = <<>>
               /\ objs[t].copy = EmptyMap
               /\ result[t] = EmptyMap
               /\ (pc[t] = "raised") => (exc[t] \in {"YAMLError"} \cup FetchFailures)

\* C13 without the kind of the error: with a malformed mapping document no
\* copy of the graph is made or written and no graph is returned, and a
\* request whose assets resolved ends in the parse error.
C13_NoMutation ==
    \A t \in Threads :
        MalformedSpec(t)
            => /\ pc[t] \notin {"loop", "returned"}
               /\ r_log[t] = <<>>
               /\ objs[t].copy = EmptyMap
               /\ result[t] = EmptyMap
               /\ (pc[t] = "raised" /\ data[t].args.present
                      /\ HasArg(data[t].args.items, "images"))
                     => (exc[t] \in {"YAMLError"} \cup FetchFailures)

Downloading(t) == pc[t] \in {"dl_check", "dl_get", "dl_open", "dl_write"}

PastStepOne(t) == pc[t] \in {"load", "loop", "returned"}

\* The argument set the request came with: the list under "images" resolved,
\* everything else as it was.
StepOneOf(a0) ==
    IF HasArg(a0, "images") /\ a0[ArgValue(a0, "images")].value.isList
    THEN SetArg(a0, "images",
                L([i \in 1..Len(a0[ArgValue(a0, "images")].value.items) |->
                     LocalPath(_url_to_filename(a0[ArgValue(a0, "images")].value.items[i]))]))
    ELSE a0

\* C14: in a request's first call of inject, a list under "images" is replaced
\* by the local paths of its references, one for one and in order; every other
\* value is passed on as it came, and a value under "images" that is not a list
\* is not resolved: nothing is fetched for it and it stays as it came.
C14_StepOne ==
    \A t \in Threads :
        (ncall[t] = 1 /\ data[t].args.present)
            => LET a0 == data[t].args.items
               IN  /\ PastStepOne(t) => (args[t].items = StepOneOf(a0))
                   /\ \A i \in 1..Len(a0) :
                         (a0[i].name # "images") => (args[t].items[i] = a0[i])
                   /\ (HasArg(a0, "images") /\ ~a0[ArgValue(a0, "images")].value.isList)
                         => (~Downloading(t) /\ args[t].items = a0)

\* C14 for the argument sets whose "images" value is a list.
C14_ListsResolved ==
    \A t \in Threads :
        (ncall[t] = 1 /\ data[t].args.present)
            => LET a0 == data[t].args.items
               IN  /\ (PastStepOne(t) /\ HasArg(a0, "images")
                          /\ a0[ArgValue(a0, "images")].value.isList)
                         => (args[t].items = StepOneOf(a0))
                   /\ \A i \in 1..Len(a0) :
                         (a0[i].name # "images") => (args[t].items[i] = a0[i])
                   /\ (Len(local_filepaths[t]) > 0 /\ ~PastStepOne(t) /\ pc[t] # "raised")
                         => \A i \in 1..Len(local_filepaths[t]) :
                              local_filepaths[t][i] =
                                  StepOneOf(a0)[ArgValue(a0, "images")].value.items[i]

\* What the request of t gets from inject when it runs alone and its fetches
\* succeed.
Alone(t) ==
    inject_args_into_workflow(graph_files[data[t].workflow], data[t].args.items,
                              spec_files["txt2img"].parameters)

\* C15: under every interleaving of the requests a container runs at once,
\* the graph inject returns to a request, and the writes it made to get
\* there, are those of the same request run alone.
C15_Isolated ==
    \A t \in Threads :
        (pc[t] = "returned")
            => /\ Alone(t).exc = None
               /\ result[t] = Alone(t).wf
               /\ r_log[t] = Alone(t).log

\* One request has its graph back while another, with other arguments, is in
\* the middle of its pass.
C15_Witness ==
    \E t1, t2 \in Threads :
        /\ pc[t1] = "returned"
        /\ pc[t2] = "loop"
        /\ idx[t2] > 1
        /\ Len(r_log[t2]) > 0
        /\ data[t1] # data[t2]
        /\ result[t1] # objs[t2].copy

WrittenNodes(t) == {r_log[t][i].n : i \in 1..Len(r_log[t])}

\* C16: while the pass runs and when it has returned, the graph being written
\* has exactly the node ids of the graph that was loaded: none added for a rule
\* or remap whose node is missing, none removed; and the nodes no rule wrote
\* are as they were loaded.
C16_SameNodeIds ==
    \A t \in Threads :
        LET g == graph_files[data[t].workflow]
        IN  /\ (pc[t] = "loop")
                  => /\ DOMAIN objs[t][uw_ref[t]] = DOMAIN g
                     /\ \A n \in DOMAIN g \ WrittenNodes(t) : objs[t][uw_ref[t]][n] = g[n]
            /\ (pc[t] = "returned")
                  => /\ DOMAIN result[t] = DOMAIN g
                     /\ WrittenNodes(t) \subseteq DOMAIN g
                     /\ \A n \in DOMAIN g \ WrittenNodes(t) : result[t][n] = g[n]

\* A returned call that wrote one node, left another alone, and skipped a rule
\* whose node the graph lacks.
C16_Witness ==
    \E t \in Threads :
        /\ pc[t] = "returned"
        /\ WrittenNodes(t) # {}
        /\ DOMAIN graph_files[data[t].workflow] \ WrittenNodes(t) # {}
        /\ \E i \in 1..Len(r_warns[t]) : r_warns[t][i].kind = "node"

\* C17: the bytes a request is answered with are the file its own run saved
\* for its own injected graph.
C17_OwnArtifact ==
    \A t \in Threads :
        (pc[t] = "responded") => (content_bytes[t] = Artifact(t, result[t]))

\* The last segment of the path component of a URL: the query goes first.
PathLastSegment(u) == LastSegment(StripQuery(u))

\* C18: the file name download_file is called with, for a reference that is a
\* URL, is the last segment of the URL's path with the query removed, and is
\* no longer than max_length.
C18_NameOfPath ==
    \A t \in Threads :
        (ncall[t] = 1 /\ Downloading(t) /\ HasScheme(url[t]))
            => /\ path[t] = LocalPath(PathLastSegment(url[t]))
               /\ Len(path[t]) <= Len(InputDir) + 1 + max_length

\* C18's bound on the length, for a name whose extension is longer than
\* max_length.
C18_LengthBound == Len(_url_to_filename(U_LongExt)) <= max_length

\* C18 for a long name with a short extension and a query without "/": the
\* name is cut to max_length and still ends in the extension.
C18_TruncationKeepsExt ==
    LET name == _url_to_filename(U_LongName)
    IN  /\ Len(name) = max_length
        /\ SubSeq(name, max_length - 3, max_length) = <<".", "p", "n", "g">>
        /\ \A i \in 1..(max_length - 4) : name[i] = "a"

\* C19: in a call that returned, the writes were made in the order of the
\* argument set, and for one argument the primary write first and its remap
\* rules in declared order; the primary write carries the argument's value; and
\* every written path holds the value of the last write made to it.
C19_WriteOrder ==
    \A t \in Threads :
        (pc[t] = "returned")
            => LET lg == r_log[t]
                   a == args[t].items
               IN  /\ \A x, y \in 1..Len(lg) :
                         (x < y)
                             => \/ ArgValue(a, lg[x].param) < ArgValue(a, lg[y].param)
                                \/ lg[x].param = lg[y].param /\ lg[x].j < lg[y].j
                   /\ \A x \in 1..Len(lg) :
                         /\ (lg[x].kind = "primary") <=> (lg[x].j = 0)
                         /\ (lg[x].kind = "primary")
                               => (lg[x].v = a[ArgValue(a, lg[x].param)].value)
                         /\ LastWriteIs(lg, x)
                               => (result[t][lg[x].n][lg[x].fg][lg[x].f] = lg[x].v)

\* A returned call in which a remap wrote over the primary write of its own
\* parameter, which had written over the primary write of an earlier parameter.
C19_Witness ==
    \E t \in Threads :
        /\ pc[t] = "returned"
        /\ \E x, y, z \in 1..Len(r_log[t]) :
              /\ x < y /\ y < z
              /\ SamePath(r_log[t][x], r_log[t][y]) /\ SamePath(r_log[t][y], r_log[t][z])
              /\ r_log[t][x].param # r_log[t][y].param
              /\ r_log[t][y].param = r_log[t][z].param
              /\ r_log[t][y].kind = "primary" /\ r_log[t][z].kind = "remap"
              /\ r_log[t][x].v # r_log[t][z].v /\ r_log[t][y].v # r_log[t][z].v
              /\ result[t][r_log[t][z].n][r_log[t][z].fg][r_log[t][z].f] = r_log[t][z].v

\* Subprocess call x of the function succeeded, as command cmd of attempt a.
Ran(x, a, cmd) ==
    /\ x \in 1..Len(runs)
    /\ runs[x].attempt = a /\ runs[x].cmd = cmd /\ runs[x].outcome = "ok"

\* The facts of C20 that do not depend on max_retries: a clone is only run
\* when the directory is absent, no command is run once the function is over,
\* and the function raises a command error only from its last attempt.
InstallSteps ==
    /\ \A x \in 1..Len(runs) :
          /\ (runs[x].cmd = "clone") => (runs[x].found = "absent")
          /\ (runs[x].cmd = "rm") => (runs[x].found # "absent")
          /\ (x < Len(runs) /\ runs[x].cmd = "checkout" /\ runs[x].outcome = "ok") => FALSE
    /\ (i_pc = "raised" /\ i_exc = "CalledProcessError")
          => /\ attempt = max_retries - 1
             /\ \A a \in 0..(max_retries - 1) :
                   \E x \in 1..Len(runs) :
                       runs[x].attempt = a /\ runs[x].outcome = "CalledProcessError"
    /\ (i_pc \in {"returned", "raised"} /\ runs # <<>>)
          => ((runs[Len(runs)].outcome = "ok") <=> (i_pc = "returned"))

\* C20: for every max_retries, the function has returned only if its last two
\* commands were the clone and the checkout of one attempt, both succeeding,
\* and the node is installed; together with the facts of InstallSteps.
C20_InstallContract ==
    /\ InstallSteps
    /\ (i_pc = "returned")
          => /\ Len(runs) >= 2
             /\ Ran(Len(runs) - 1, attempt, "clone")
             /\ Ran(Len(runs), attempt, "checkout")
             /\ node_path = "installed"

\* C20 for max_retries of at least 1.
C20_PositiveRetries ==
    /\ InstallSteps
    /\ (i_pc = "returned" /\ max_retries >= 1)
          => /\ Len(runs) >= 2
             /\ Ran(Len(runs) - 1, attempt, "clone")
             /\ Ran(Len(runs), attempt, "checkout")
             /\ node_path = "installed"

====
